---------------------------- MODULE Spec2Model ----------------------------
(***************************************************************************)
(* The change-detection notification loop of the outage-schedule bot       *)
(* (src/main.py): the subscriptions table and its operations, the pure     *)
(* fingerprint function compute_hash, and worker_loop with the commands    *)
(* that interleave with it at its await points.                            *)
(*                                                                         *)
(* Conventions.                                                            *)
(*  - Text is a sequence of one-character strings; the Python str "" is    *)
(*    the empty sequence and SQL NULL / Python None is the value NULL.     *)
(*  - hashlib.sha256 is idealised as collision free: the digest of s is    *)
(*    the tag "sha256" followed by s.  A digest is never the empty text.   *)
(*  - last_checked holds Postgres now() values.  The code reads them only  *)
(*    through ORDER BY, so they are kept up to order: every write stamps   *)
(*    the row with a value above all stored ones and the table is then     *)
(*    renumbered 1..k in the same order (Compress).                        *)
(***************************************************************************)
EXTENDS Integers, Sequences, FiniteSets, TLC

\* ------------------------------------------------------------- bounds
MaxLen == 3          \* longest text given to compute_hash
NumOwners == 2       \* Discord users issuing commands
NumHouses == 2       \* house numbers of the store-only runs
MaxId == 2           \* SERIAL ids handed out (rows inserted) in one run
MaxRows == 4         \* rows of the tables the store's operations are tried on
NumFailing == 2      \* subscriptions whose checks can fail in the fair runs
NumCallers == 2      \* tasks calling pw_manager.get_page
MaxLaunches == 3     \* browsers launched in a run of the manager
MaxReady == 2        \* on_ready events of a run whose gateway reconnects
MaxTyped == 2        \* letters of a typed value and of a suggestion
MaxItems == 2        \* suggestions in an autocomplete list
MaxNotifications == 2 \* rows ever inserted into outage_notifications
MaxWarnings == 2     \* warnings sent for one row of outage_notifications

\* -------------------------------------------------- program constants
ERROR_THRESHOLD == 5
MAX_CHECKS_PER_TICK == 3

NULL == <<"NULL">>
Owners == 1..NumOwners
Houses == 1..NumHouses
Workers == 1..MaxReady
Callers == 1..NumCallers

\* ------------------------------------------------------ compute_hash
Whitespace == {" ", "\n"}
Alphabet == {"a", "b"} \cup Whitespace

RECURSIVE lstrip(_)
lstrip(s) ==
    IF s = <<>> THEN <<>>
    ELSE IF Head(s) \in Whitespace THEN lstrip(Tail(s)) ELSE s

RECURSIVE rstrip(_)
rstrip(s) ==
    IF s = <<>> THEN <<>>
    ELSE IF s[Len(s)] \in Whitespace THEN rstrip(SubSeq(s, 1, Len(s) - 1)) ELSE s

\* str.strip()
strip(s) == rstrip(lstrip(s))

\* re.sub(r"\s+", " ", s): every maximal run of whitespace becomes one space
RECURSIVE re_sub_ws(_)
re_sub_ws(s) ==
    IF s = <<>> THEN <<>>
    ELSE IF Head(s) \in Whitespace
         THEN <<" ">> \o re_sub_ws(lstrip(s))
         ELSE <<Head(s)>> \o re_sub_ws(Tail(s))

\* hashlib.sha256(...).hexdigest(), collision free
sha256(s) == <<"sha256">> \o s

compute_hash_nostrip(text) == sha256(re_sub_ws(text))

compute_hash(text) == sha256(re_sub_ws(strip(text)))

\* ------------------------------------------------- subscriptions table
\* The table is a function from the ids present to their rows.
\* CREATE TABLE subscriptions (created_at is never read and is left out).
Row(u, c, s, h, lh, lc, ec) ==
    [discord_user_id |-> u, city |-> c, street |-> s, house |-> h,
     last_hash |-> lh, last_checked |-> lc, error_count |-> ec]

SameAddress(r, c, s, h) == r.city = c /\ r.street = s /\ r.house = h

\* UNIQUE(discord_user_id, city, street, house)
SameKey(r, u, c, s, h) == r.discord_user_id = u /\ SameAddress(r, c, s, h)

Max(S) == CHOOSE x \in S : \A y \in S : y <= x

\* now(): later than every timestamp already stored
Now(t) == IF DOMAIN t = {} THEN 1 ELSE 1 + Max({t[i].last_checked : i \in DOMAIN t})

\* Timestamps renumbered 1..k, order kept.
Compress(t) ==
    LET vals == {t[i].last_checked : i \in DOMAIN t}
        rank(v) == Cardinality({u \in vals : u <= v})
    IN  [i \in DOMAIN t |-> [t[i] EXCEPT !.last_checked = rank(@)]]

\* INSERT ... ON CONFLICT (discord_user_id, city, street, house) DO NOTHING
Insert_noconflict(t, id, u, c, s, h) ==
    Compress((id :> Row(u, c, s, h, NULL, Now(t), 0)) @@ t)

Insert(t, id, u, c, s, h) ==
    IF \E i \in DOMAIN t : SameKey(t[i], u, c, s, h)
    THEN t
    ELSE Compress((id :> Row(u, c, s, h, NULL, Now(t), 0)) @@ t)

\* DELETE FROM subscriptions WHERE discord_user_id=$1
Delete(t, u) ==
    Compress([i \in {j \in DOMAIN t : t[j].discord_user_id # u} |-> t[i]])

\* UPDATE subscriptions SET error_count=0 WHERE city=$1 AND street=$2 AND house=$3
ResetErrors_decrements(t, c, s, h) ==
    [i \in DOMAIN t |->
        IF SameAddress(t[i], c, s, h) /\ t[i].error_count > 0
        THEN [t[i] EXCEPT !.error_count = @ - 1] ELSE t[i]]

ResetErrors(t, c, s, h) ==
    [i \in DOMAIN t |->
        IF SameAddress(t[i], c, s, h) THEN [t[i] EXCEPT !.error_count = 0] ELSE t[i]]

\* update_subscription_hash: one UPDATE ... WHERE id=$n, by the success flag
Update_storesOnFailure(t, sub_id, new_hash, success) ==
    IF sub_id \notin DOMAIN t THEN t
    ELSE Compress([t EXCEPT ![sub_id] =
            IF success
            THEN [@ EXCEPT !.last_hash = new_hash, !.last_checked = Now(t),
                           !.error_count = 0]
            ELSE [@ EXCEPT !.last_hash = new_hash, !.last_checked = Now(t),
                           !.error_count = @ + 1]])

Update_keepsErrors(t, sub_id, new_hash, success) ==
    IF sub_id \notin DOMAIN t THEN t
    ELSE Compress([t EXCEPT ![sub_id] =
            IF success
            THEN [@ EXCEPT !.last_hash = new_hash, !.last_checked = Now(t)]
            ELSE [@ EXCEPT !.last_checked = Now(t), !.error_count = @ + 1]])

Update_noTimestamp(t, sub_id, new_hash, success) ==
    IF sub_id \notin DOMAIN t THEN t
    ELSE [t EXCEPT ![sub_id] =
            IF success
            THEN [@ EXCEPT !.last_hash = new_hash, !.error_count = 0]
            ELSE [@ EXCEPT !.error_count = @ + 1]]

Update(t, sub_id, new_hash, success) ==
    IF sub_id \notin DOMAIN t THEN t
    ELSE Compress([t EXCEPT ![sub_id] =
            IF success
            THEN [@ EXCEPT !.last_hash = new_hash, !.last_checked = Now(t),
                           !.error_count = 0]
            ELSE [@ EXCEPT !.last_checked = Now(t), !.error_count = @ + 1]])

\* WHERE error_count < 5
Eligible_all(t) == DOMAIN t

Eligible(t) == {i \in DOMAIN t : t[i].error_count < ERROR_THRESHOLD}

\* ORDER BY last_checked ASC NULLS FIRST LIMIT n, over the ids in S
RECURSIVE Oldest(_, _, _)
Oldest(t, S, n) ==
    IF S = {} \/ n = 0 THEN <<>>
    ELSE LET i == CHOOSE x \in S : \A y \in S : t[x].last_checked <= t[y].last_checked
         IN  <<i>> \o Oldest(t, S \ {i}, n - 1)

\* What worker_loop reads of a selected row (SELECT * returns it whole).
Snapshot(t, i) ==
    [id |-> i, discord_user_id |-> t[i].discord_user_id, city |-> t[i].city,
     street |-> t[i].street, house |-> t[i].house, last_hash |-> t[i].last_hash]

\* fetch_n_oldest(n)
fetch_n_oldest(t, n) ==
    LET ids == Oldest(t, Eligible(t), n)
    IN  [j \in 1..Len(ids) |-> Snapshot(t, ids[j])]

\* sub["last_hash"] or ""
OrEmpty(h) == IF h = NULL THEN <<>> ELSE h

\* --------------------------------------------------------------- state
VARIABLES
    subscriptions,  \* the subscriptions table
    next_id,        \* the SERIAL sequence of subscriptions.id
    worker,         \* each worker_loop task: its position and its locals
    ready_events,   \* on_ready events the gateway has still to fire
    delivered,      \* history: <<sub id, user, fingerprint>> of every DM sent
    reply,          \* store-only runs: the last store call and what it returned
    text,           \* fingerprint runs: the two texts compared
    digest,         \* fingerprint runs: their compute_hash, NULL before the call
    pw_manager,     \* the PlaywrightManager, its browsers and the callers of get_page
    fetch_call,     \* each caller's call of fetch_schedule_html: its loop and its result
    bot             \* Bot.py: its tables, its two background tasks, what they sent

vars == <<subscriptions, next_id, worker, ready_events, delivered, reply, text, digest,
          pw_manager, fetch_call, bot>>

\* PlaywrightManager.__init__, with nobody calling get_page.  browser and
\* context hold the number of the launched browser they belong to, 0 for
\* None; configured tells that the context got its init script and its
\* route; last_used is "none" (None), "recent" or "old" (more than 5
\* minutes ago); lock holds the caller inside "async with self._lock", 0 if
\* free.  Of a caller: pc is its position in get_page, page the browser of
\* the page it holds (0: none), set tells whether that page's context was
\* configured.  History: launched counts the browsers launched, live holds
\* those not closed, recycled those closed for being idle, stopped tells
\* that shutdown has run, result and left what the caller's last get_page
\* block ended with.
NoCall == [pc |-> "idle", page |-> 0, set |-> FALSE, result |-> "none", left |-> "none"]

NoBrowser ==
    [playwright |-> FALSE, browser |-> 0, context |-> 0, configured |-> FALSE,
     last_used |-> "none", lock |-> 0, launched |-> 0, live |-> {},
     recycled |-> {}, stopped |-> FALSE, caller |-> [t \in Callers |-> NoCall]]

\* Bot.py before anyone has used it.  users maps discord_id to last_schedule;
\* updates and outages are the locals of check_schedule_updates and
\* check_upcoming_outages: pc the await point, rows what the task read at
\* its start, k the position in it, new the schedule just scraped.
\* History: for the user being checked, failed tells that
\* update_user_schedule returned False, tries counts the sends and sent
\* tells how the last one ended; checked holds the users whose scrape
\* returned in this run; warned counts the warnings sent for each
\* notification row and unmarked holds the rows whose
\* mark_notification_sent returned False.
IdleUpdates ==
    [pc |-> "idle", rows |-> <<>>, k |-> 0, new |-> NULL, failed |-> FALSE,
     tries |-> 0, sent |-> "none", checked |-> {}]

IdleOutages == [pc |-> "idle", rows |-> <<>>, k |-> 0]

NoBot ==
    [users |-> <<>>, updates |-> IdleUpdates,
     outage_notifications |-> <<>>, next_notification |-> 1, outages |-> IdleOutages,
     warned |-> [i \in 1..MaxNotifications |-> 0], unmarked |-> {}]

\* no call of fetch_schedule_html has been made
NoFetch ==
    [t \in Callers |->
        [pc |-> "off", attempt |-> 0, attempts |-> 0, page_of |-> 0, log |-> <<>>,
         returned |-> "none"]]

\* What the remote site can answer with: two fragments that differ only in
\* whitespace and one with other content.
SiteFragments == {<<"a">>, <<" ", "a", "\n">>, <<"b">>}

\* html_to_png: the image shows the fragment it was rendered from
PNG(html) == <<"png">> \o html
Rendered(png) == Tail(png)

Recording ==
    {"record_fetch_failed", "record_unchanged", "record_delivered",
     "record_undelivered", "record_unrendered"}

Processing == Recording \cup {"fetch", "render", "send", "except", "pause"}

\* A worker's locals: pc is its await point, subs the batch, k the position
\* of sub in it; html, current_hash, png as in the code, each NULL again
\* once the code no longer reads it.  History: sends
\* counts the send_update_to_user calls for sub, recorded holds the ids
\* whose update_subscription_hash call returned in this tick, crashed tells
\* that the tick ended in the while loop's "except Exception".
Idle ==
    [pc |-> "off", subs |-> <<>>, k |-> 0, html |-> NULL, current_hash |-> NULL,
     png |-> NULL, sends |-> 0, recorded |-> {}, crashed |-> FALSE]

NoReply == [op |-> "none"]

InitCommon ==
    /\ subscriptions = <<>>
    /\ next_id = 1
    /\ worker = [w \in Workers |-> Idle]
    /\ delivered = {}
    /\ reply = NoReply
    /\ text = <<<<>>, <<>>>>
    /\ digest = <<NULL, NULL>>
    /\ pw_manager = NoBrowser
    /\ fetch_call = NoFetch
    /\ bot = NoBot

\* The gateway stays connected: on_ready fires once.
Init == InitCommon /\ ready_events = 1

Sub(w) == worker[w].subs[worker[w].k]

\* the locals of one pass of "for sub in subs", before its first statement
NextSub(l, k) ==
    [l EXCEPT !.pc = "fetch", !.k = k, !.html = NULL, !.current_hash = NULL,
              !.png = NULL, !.sends = 0]

\* the for loop is over: asyncio.sleep(CHECK_INTERVAL_SECONDS)
EndOfBatch(l) ==
    [l EXCEPT !.pc = "wait", !.html = NULL, !.current_hash = NULL, !.png = NULL,
              !.sends = 0]

Continue_breaks(l) == EndOfBatch(l)

Continue(l) ==
    IF l.k < Len(l.subs) THEN NextSub(l, l.k + 1) ELSE EndOfBatch(l)

\* ------------------------------------------------------------ commands
\* add_subscription: the INSERT, with a fresh id
add_subscription(u, c, s, h) ==
    /\ \/ \E i \in DOMAIN subscriptions : SameKey(subscriptions[i], u, c, s, h)
       \/ next_id <= MaxId
    /\ subscriptions' = Insert(subscriptions, next_id, u, c, s, h)
    /\ next_id' = IF subscriptions' = subscriptions THEN next_id ELSE next_id + 1
    /\ UNCHANGED <<worker, ready_events, delivered, text, digest, pw_manager, fetch_call, bot>>

\* remove_subscriptions_for_user
remove_subscriptions_for_user(u) ==
    /\ subscriptions' = Delete(subscriptions, u)
    /\ delivered' = {d \in delivered : d[1] \in DOMAIN subscriptions'}
    /\ UNCHANGED <<next_id, worker, ready_events, text, digest, pw_manager, fetch_call, bot>>

\* cmd_start
CmdStart(u, c, s, h) == add_subscription(u, c, s, h) /\ UNCHANGED reply

\* cmd_stop
CmdStop(u) == remove_subscriptions_for_user(u) /\ UNCHANGED reply

\* cmd_reset_errors
CmdResetErrors(c, s, h) ==
    /\ subscriptions' = ResetErrors(subscriptions, c, s, h)
    /\ UNCHANGED <<next_id, worker, ready_events, delivered, reply, text, digest, pw_manager, fetch_call, bot>>

\* on_ready: client.loop.create_task(worker_loop())
OnReady(w) ==
    /\ ready_events > 0
    /\ worker[w].pc = "off"
    /\ \A v \in Workers : v < w => worker[v].pc # "off"
    /\ ready_events' = ready_events - 1
    /\ worker' = [worker EXCEPT ![w].pc = "select"]
    /\ UNCHANGED <<subscriptions, next_id, delivered, reply, text, digest, pw_manager, fetch_call, bot>>

\* --------------------------------------------------------- worker_loop
WorkerOnly == <<subscriptions, next_id, ready_events, delivered, reply, text, digest, pw_manager, fetch_call, bot>>

\* get_total_subscriptions(); subs = fetch_n_oldest(MAX_CHECKS_PER_TICK)
Select(w) ==
    /\ worker[w].pc = "select"
    /\ LET subs == fetch_n_oldest(subscriptions, MAX_CHECKS_PER_TICK)
           l == [worker[w] EXCEPT !.subs = subs, !.recorded = {}, !.crashed = FALSE]
       IN  worker' = [worker EXCEPT ![w] =
               IF subs = <<>> THEN [l EXCEPT !.pc = "wait", !.k = 0]
               ELSE NextSub(l, 1)]
    /\ UNCHANGED WorkerOnly

\* the store raises in get_total_subscriptions or fetch_n_oldest:
\* "except Exception" of the while loop, then the sleep
SelectRaises(w) ==
    /\ worker[w].pc = "select"
    /\ worker' = [worker EXCEPT ![w] = [@ EXCEPT !.pc = "wait", !.crashed = TRUE]]
    /\ UNCHANGED WorkerOnly

\* if current_hash != (sub["last_hash"] or "")
Changed_ignoresNull(current_hash, last_hash) ==
    last_hash # NULL /\ current_hash # last_hash

Changed(current_hash, last_hash) == current_hash # OrEmpty(last_hash)

\* html = await fetch_schedule_html(...); if not html; compute_hash(html)
Fetch(w, html) ==
    /\ worker[w].pc = "fetch"
    /\ worker' = [worker EXCEPT ![w] =
           IF html = NULL
           THEN [@ EXCEPT !.pc = "record_fetch_failed"]
           ELSE IF Changed(compute_hash(html), Sub(w).last_hash)
           THEN [@ EXCEPT !.pc = "render", !.html = html,
                          !.current_hash = compute_hash(html)]
           ELSE [@ EXCEPT !.pc = "record_unchanged",
                          !.current_hash = compute_hash(html)]]
    /\ UNCHANGED WorkerOnly

\* png = await html_to_png(html); if png
Render(w, ok) ==
    /\ worker[w].pc = "render"
    /\ worker' = [worker EXCEPT ![w] =
           IF ok THEN [@ EXCEPT !.pc = "send", !.png = PNG(worker[w].html),
                                !.html = NULL]
           ELSE [@ EXCEPT !.pc = "record_unrendered", !.html = NULL]]
    /\ UNCHANGED WorkerOnly

Send_raises(w, success) ==
    /\ worker[w].pc = "send"
    /\ worker' = [worker EXCEPT ![w] =
           [@ EXCEPT !.pc = IF success THEN "record_delivered" ELSE "except",
                     !.sends = @ + 1, !.png = NULL]]
    /\ delivered' = delivered
    /\ UNCHANGED <<subscriptions, next_id, ready_events, reply, text, digest, pw_manager, fetch_call, bot>>

\* success = await send_update_to_user(...); if success
Send(w, success) ==
    /\ worker[w].pc = "send"
    /\ worker' = [worker EXCEPT ![w] =
           [@ EXCEPT !.pc = IF success THEN "record_delivered" ELSE "record_undelivered",
                     !.sends = @ + 1, !.png = NULL]]
    /\ delivered' =
           IF success /\ Sub(w).id \in DOMAIN subscriptions
           THEN delivered \cup
                {<<Sub(w).id, Sub(w).discord_user_id,
                   compute_hash(Rendered(worker[w].png))>>}
           ELSE delivered
    /\ UNCHANGED <<subscriptions, next_id, ready_events, reply, text, digest, pw_manager, fetch_call, bot>>

RecordCall_storesUndelivered(t, l) ==
    LET sub == l.subs[l.k]
    IN  CASE l.pc \in {"record_fetch_failed", "record_unrendered"} ->
                Update(t, sub.id, OrEmpty(sub.last_hash), FALSE)
          [] OTHER -> Update(t, sub.id, l.current_hash, TRUE)

RecordCall_storesUnrendered(t, l) ==
    LET sub == l.subs[l.k]
    IN  CASE l.pc = "record_fetch_failed" -> Update(t, sub.id, OrEmpty(sub.last_hash), FALSE)
          [] l.pc = "record_undelivered"  -> Update(t, sub.id, l.current_hash, FALSE)
          [] OTHER -> Update(t, sub.id, l.current_hash, TRUE)

\* the update_subscription_hash call of each branch of the loop body
RecordCall(t, l) ==
    LET sub == l.subs[l.k]
    IN  CASE l.pc = "record_fetch_failed" -> Update(t, sub.id, OrEmpty(sub.last_hash), FALSE)
          [] l.pc = "record_unrendered"   -> Update(t, sub.id, OrEmpty(sub.last_hash), FALSE)
          [] l.pc = "record_undelivered"  -> Update(t, sub.id, l.current_hash, FALSE)
          [] l.pc = "record_delivered"    -> Update(t, sub.id, l.current_hash, TRUE)
          [] l.pc = "record_unchanged"    -> Update(t, sub.id, l.current_hash, TRUE)

Record(w) ==
    /\ worker[w].pc \in Recording
    /\ subscriptions' = RecordCall(subscriptions, worker[w])
    /\ worker' = [worker EXCEPT ![w] =
           [@ EXCEPT !.pc = "pause", !.recorded = @ \cup {Sub(w).id}]]
    /\ UNCHANGED <<next_id, ready_events, delivered, reply, text, digest, pw_manager, fetch_call, bot>>

\* update_subscription_hash raises: "except Exception" of the loop body
RecordRaises(w) ==
    /\ worker[w].pc \in Recording
    /\ worker' = [worker EXCEPT ![w].pc = "except"]
    /\ UNCHANGED WorkerOnly

\* the handler: update_subscription_hash(..., success=False), then the next sub
Handler(w) ==
    /\ worker[w].pc = "except"
    /\ subscriptions' = Update(subscriptions, Sub(w).id, OrEmpty(Sub(w).last_hash), FALSE)
    /\ worker' = [worker EXCEPT ![w] =
           Continue([@ EXCEPT !.recorded = @ \cup {Sub(w).id}])]
    /\ UNCHANGED <<next_id, ready_events, delivered, reply, text, digest, pw_manager, fetch_call, bot>>

HandlerRaises_stops(w) ==
    /\ worker[w].pc = "except"
    /\ worker' = [worker EXCEPT ![w] = Idle]
    /\ UNCHANGED WorkerOnly

\* the handler's own update raises: "except Exception" of the while loop
HandlerRaises(w) ==
    /\ worker[w].pc = "except"
    /\ worker' = [worker EXCEPT ![w] = [EndOfBatch(@) EXCEPT !.crashed = TRUE]]
    /\ UNCHANGED WorkerOnly

\* asyncio.sleep(2) / asyncio.sleep(5), then the next sub of the batch
Pause(w) ==
    /\ worker[w].pc = "pause"
    /\ worker' = [worker EXCEPT ![w] = Continue(@)]
    /\ UNCHANGED WorkerOnly

\* asyncio.sleep(CHECK_INTERVAL_SECONDS) is over: the next "while True" pass
Wait(w) ==
    /\ worker[w].pc = "wait"
    /\ worker' = [worker EXCEPT ![w] = [Idle EXCEPT !.pc = "select"]]
    /\ UNCHANGED WorkerOnly

WorkerStep ==
    \/ \E w \in Workers : OnReady(w)
    \/ \E w \in Workers : Select(w)
    \/ \E w \in Workers : SelectRaises(w)
    \/ \E w \in Workers, html \in SiteFragments \cup {NULL} : Fetch(w, html)
    \/ \E w \in Workers, ok \in BOOLEAN : Render(w, ok)
    \/ \E w \in Workers, success \in BOOLEAN : Send(w, success)
    \/ \E w \in Workers : Record(w)
    \/ \E w \in Workers : RecordRaises(w)
    \/ \E w \in Workers : Handler(w)
    \/ \E w \in Workers : HandlerRaises(w)
    \/ \E w \in Workers : Pause(w)
    \/ \E w \in Workers : Wait(w)

\* One address, subscribed to by every owner.
TheCity == "Kremenchuk"
TheStreet == "Lenina"
TheHouse == CHOOSE h \in Houses : \A g \in Houses : h <= g

Next ==
    \/ \E u \in Owners : CmdStart(u, TheCity, TheStreet, TheHouse)
    \/ \E u \in Owners : CmdStop(u)
    \/ CmdResetErrors(TheCity, TheStreet, TheHouse)
    \/ WorkerStep

Spec == Init /\ [][Next]_vars

\* ------------------------------------------- a gateway that reconnects
\* on_ready fires up to MaxReady times; one owner subscribes.
InitReconnect == InitCommon /\ ready_events = MaxReady

NextReconnect ==
    \/ CmdStart(1, TheCity, TheStreet, TheHouse)
    \/ WorkerStep

SpecReconnect == InitReconnect /\ [][NextReconnect]_vars

\* ------------------------------------------------- the store on its own
\* add_subscription and remove_subscriptions_for_user called in any order,
\* over NumOwners owners and NumHouses houses; reply holds the last call.
\* add_subscription returns True after the INSERT and False from its
\* "except Exception", and message is what cmd_start then tells the user;
\* remove_subscriptions_for_user returns the row count.
\* cmd_start's answer to the user, chosen by what add_subscription returned
StartMessage(success) == IF success THEN "created" ELSE "already added"

StoreAdd(u, c, s, h) ==
    /\ add_subscription(u, c, s, h)
    /\ reply' = [op |-> "add", user |-> u, house |-> h,
                 existed |-> \E i \in DOMAIN subscriptions :
                                 SameKey(subscriptions[i], u, c, s, h),
                 returned |-> TRUE, message |-> StartMessage(TRUE)]

\* the INSERT raises (the store is unreachable)
StoreAddRaises(u, c, s, h) ==
    /\ reply' = [op |-> "add", user |-> u, house |-> h,
                 existed |-> \E i \in DOMAIN subscriptions :
                                 SameKey(subscriptions[i], u, c, s, h),
                 returned |-> FALSE, message |-> StartMessage(FALSE)]
    /\ UNCHANGED <<subscriptions, next_id, worker, ready_events, delivered, text, digest, pw_manager, fetch_call, bot>>

StoreRemove(u) ==
    /\ remove_subscriptions_for_user(u)
    /\ reply' = [op |-> "remove", user |-> u,
                 returned |-> Cardinality(DOMAIN subscriptions)
                              - Cardinality(DOMAIN subscriptions')]

InitStore == InitCommon /\ ready_events = 0

NextStore ==
    \/ \E u \in Owners, h \in Houses : StoreAdd(u, TheCity, TheStreet, h)
    \/ \E u \in Owners, h \in Houses : StoreAddRaises(u, TheCity, TheStreet, h)
    \/ \E u \in Owners : StoreRemove(u)

SpecStore == InitStore /\ [][NextStore]_vars

\* ------------------------------------- fetch_n_oldest and the UPDATE alone
\* One call of fetch_n_oldest(n) or of update_subscription_hash on a table
\* of up to MaxRows rows with any order of distinct last_checked values,
\* error counts on both sides of the threshold and hashes stored or not;
\* reply holds the call and what it returned.
KeyOwner(i) == ((i - 1) % NumOwners) + 1
KeyHouse(i) == ((i - 1) \div NumOwners) + 1

\* row i of a table: its key, a hash stored for every second row
TableRow(i, lc, ec) ==
    Row(KeyOwner(i), TheCity, TheStreet, KeyHouse(i),
        IF i % 2 = 0 THEN sha256(<<"a">>) ELSE NULL, lc, ec)

TablesOfSize(n) ==
    {[i \in 1..n |-> TableRow(i, lc[i], ec[i])] :
        lc \in Permutations(1..n),
        ec \in [1..n -> {0, ERROR_THRESHOLD - 1, ERROR_THRESHOLD}]}

InitTable ==
    /\ \E n \in 0..MaxRows : subscriptions \in TablesOfSize(n)
    /\ next_id = Len(subscriptions) + 1
    /\ worker = [w \in Workers |-> Idle]
    /\ ready_events = 0
    /\ delivered = {}
    /\ reply = NoReply
    /\ text = <<<<>>, <<>>>>
    /\ digest = <<NULL, NULL>>
    /\ pw_manager = NoBrowser
    /\ fetch_call = NoFetch
    /\ bot = NoBot

TableSelect(n) ==
    /\ reply = NoReply
    /\ reply' = [op |-> "select", limit |-> n, rows |-> fetch_n_oldest(subscriptions, n)]
    /\ UNCHANGED <<subscriptions, next_id, worker, ready_events, delivered, text, digest, pw_manager, fetch_call, bot>>

TableUpdate(sub_id, new_hash, success) ==
    /\ reply = NoReply
    /\ subscriptions' = Update(subscriptions, sub_id, new_hash, success)
    /\ reply' = [op |-> "update", id |-> sub_id, hash |-> new_hash, success |-> success]
    /\ UNCHANGED <<next_id, worker, ready_events, delivered, text, digest, pw_manager, fetch_call, bot>>

NextTable ==
    \/ \E n \in 1..MAX_CHECKS_PER_TICK : TableSelect(n)
    \/ \E sub_id \in 1..(MaxRows + 1), new_hash \in {<<>>, sha256(<<"b">>)},
          success \in BOOLEAN : TableUpdate(sub_id, new_hash, success)

SpecTable == InitTable /\ [][NextTable]_vars

\* ------------------------------------------- the worker, fairly scheduled
\* A fixed table of MaxRows subscriptions (more than one batch), no
\* commands, a store that answers, and one worker_loop whose every await
\* returns.  The checks of the first NumFailing subscriptions can fail at
\* the fetch, the rendering or the delivery; the others succeed.
InitFair ==
    /\ subscriptions = [i \in 1..MaxRows |->
           Row(KeyOwner(i), TheCity, TheStreet, KeyHouse(i), NULL, i, 0)]
    /\ next_id = MaxRows + 1
    /\ worker = [w \in Workers |-> Idle]
    /\ ready_events = 1
    /\ delivered = {}
    /\ reply = NoReply
    /\ text = <<<<>>, <<>>>>
    /\ digest = <<NULL, NULL>>
    /\ pw_manager = NoBrowser
    /\ fetch_call = NoFetch
    /\ bot = NoBot

MayFail(w) == worker[w].k > 0 /\ Sub(w).id <= NumFailing

NextFair ==
    \/ \E w \in Workers : OnReady(w)
    \/ \E w \in Workers : Select(w)
    \/ \E w \in Workers : Fetch(w, <<"a">>)
    \/ \E w \in Workers : MayFail(w) /\ Fetch(w, NULL)
    \/ \E w \in Workers, ok \in BOOLEAN : (ok \/ MayFail(w)) /\ Render(w, ok)
    \/ \E w \in Workers, success \in BOOLEAN : (success \/ MayFail(w)) /\ Send(w, success)
    \/ \E w \in Workers : Record(w)
    \/ \E w \in Workers : Pause(w)
    \/ \E w \in Workers : Wait(w)

SpecFair == InitFair /\ [][NextFair]_vars /\ WF_vars(NextFair)

\* ------------------------------------------- PlaywrightManager alone
\* NumCallers tasks (worker_loop tasks inside fetch_schedule_html or
\* html_to_png) call pw_manager.get_page in any order, time passes, and
\* shutdown closes the manager once.  An await on the browser may raise.
Rest == <<subscriptions, next_id, worker, ready_events, delivered, reply, text, digest,
          bot>>

\* PlaywrightManager.close
close(m) ==
    [m EXCEPT !.live = @ \ {m.browser}, !.context = 0, !.browser = 0,
              !.playwright = FALSE, !.configured = FALSE]

\* self._context and self._last_used and now - self._last_used > 5 minutes
Expired_never(m) == FALSE

Expired(m) == m.context # 0 /\ m.last_used = "old"

\* the manager at "if not self._context" of _ensure_browser
Recycled(m) ==
    IF Expired(m) THEN [close(m) EXCEPT !.recycled = @ \cup {m.browser}] ELSE m

\* How far the construction of _ensure_browser gets before an await raises.
Outcomes == {"start_fails", "launch_fails", "context_fails", "config_fails", "ok"}

\* _ensure_browser: the manager after it returned or raised
ensure_browser(m, outcome) ==
    LET a == Recycled(m)
        b == a.launched + 1
        started == [a EXCEPT !.playwright = TRUE]
        launch == [started EXCEPT !.browser = b, !.launched = b, !.live = @ \cup {b}]
        context == [launch EXCEPT !.context = b]
    IN  IF a.context # 0 THEN a
        ELSE CASE outcome = "start_fails" -> a
               [] outcome = "launch_fails" -> started
               [] outcome = "context_fails" -> launch
               [] outcome = "config_fails" -> context
               [] outcome = "ok" -> [context EXCEPT !.configured = TRUE]

\* _ensure_browser raised
Raised(m, outcome) == Recycled(m).context = 0 /\ outcome # "ok"

\* get_page: "async with self._lock" entered
Acquire(t) ==
    /\ pw_manager.caller[t].pc = "idle"
    /\ pw_manager.lock = 0
    /\ pw_manager' = [pw_manager EXCEPT !.lock = t, !.caller[t].pc = "ensure"]
    /\ UNCHANGED Rest

\* get_page: await self._ensure_browser(); an exception leaves the lock's
\* block and reaches the caller, whose "except Exception" returns None
EnsureBrowser(t, outcome) ==
    /\ pw_manager.caller[t].pc = "ensure"
    /\ outcome = "ok" \/ Recycled(pw_manager).context = 0
    /\ ensure_browser(pw_manager, outcome).launched <= MaxLaunches
    /\ pw_manager' =
          IF Raised(pw_manager, outcome)
          THEN [ensure_browser(pw_manager, outcome) EXCEPT
                   !.lock = 0, !.caller[t].pc = "idle", !.caller[t].result = "None",
                   !.caller[t].left = "none"]
          ELSE [ensure_browser(pw_manager, outcome) EXCEPT !.caller[t].pc = "new_page"]
    /\ UNCHANGED Rest

\* get_page: page = await self._context.new_page(); self._last_used = now;
\* the lock's block is left and the page is yielded
NewPage(t, ok) ==
    /\ pw_manager.caller[t].pc = "new_page"
    /\ ok => pw_manager.context # 0
    /\ pw_manager' =
          IF ok
          THEN [pw_manager EXCEPT
                   !.last_used = "recent", !.lock = 0, !.caller[t].pc = "using",
                   !.caller[t].page = pw_manager.context,
                   !.caller[t].set = pw_manager.configured]
          ELSE [pw_manager EXCEPT
                   !.lock = 0, !.caller[t].pc = "idle", !.caller[t].result = "None",
                   !.caller[t].left = "none"]
    /\ UNCHANGED Rest

\* the block under "async with pw_manager.get_page() as page" is left:
\* finally: await page.close()
Leave_keepsOnException(t, how) ==
    /\ pw_manager.caller[t].pc = "using"
    /\ pw_manager' = [pw_manager EXCEPT
          !.caller[t] = [pc |-> "idle",
                         page |-> IF how = "exception" THEN @.page ELSE 0,
                         set |-> FALSE,
                         result |-> IF how = "normal" THEN "html" ELSE "None",
                         left |-> how]]
    /\ UNCHANGED Rest

Leave(t, how) ==
    /\ pw_manager.caller[t].pc = "using"
    /\ pw_manager' = [pw_manager EXCEPT
          !.caller[t] = [pc |-> "idle", page |-> 0, set |-> FALSE,
                         result |-> IF how = "normal" THEN "html" ELSE "None",
                         left |-> how]]
    /\ UNCHANGED Rest

\* five minutes pass without a page being handed out
Idle5Minutes ==
    /\ pw_manager.last_used = "recent"
    /\ pw_manager' = [pw_manager EXCEPT !.last_used = "old"]
    /\ UNCHANGED <<Rest, fetch_call, bot>>

\* shutdown: await pw_manager.close()
Shutdown ==
    /\ ~pw_manager.stopped
    /\ pw_manager' = [close(pw_manager) EXCEPT !.stopped = TRUE]
    /\ UNCHANGED <<Rest, fetch_call, bot>>

NextPool ==
    \/ \E t \in Callers : Acquire(t) /\ UNCHANGED fetch_call
    \/ \E t \in Callers, outcome \in Outcomes :
          EnsureBrowser(t, outcome) /\ UNCHANGED fetch_call
    \/ \E t \in Callers, ok \in BOOLEAN : NewPage(t, ok) /\ UNCHANGED fetch_call
    \/ \E t \in Callers, how \in {"normal", "return", "exception"} :
          Leave(t, how) /\ UNCHANGED fetch_call
    \/ Idle5Minutes
    \/ Shutdown

SpecPool == InitStore /\ [][NextPool]_vars

\* ------------------------------------------- fetch_schedule_html alone
\* Each caller calls fetch_schedule_html again and again; every pass of its
\* loop takes a page from pw_manager.get_page and ends in one of the ways
\* the body can end, and time passes.
max_retries == 2

\* How one pass of the loop body ends once its page is open: page.goto timed
\* out; the city, street or house field did not appear; the result was too
\* short; the result was returned; the result did not appear and the page
\* text holds "не знайдено" or "помилка"; the result did not appear and it
\* does not; another await raised PWTimeout or another exception.
ScrapeOutcomes ==
    {"goto_timeout", "no_field", "short_result", "html", "site_error", "no_result",
     "raised"}

\* if attempt < max_retries - 1: continue
Again_always(attempt) == TRUE

Again(attempt) == attempt < max_retries - 1

Retry_propagates(c, outcome) ==
    IF outcome = "raised"
    THEN [c EXCEPT !.pc = "done", !.log = Append(@, outcome), !.returned = "exception"]
    ELSE IF c.attempt < max_retries - 1
    THEN [c EXCEPT !.pc = "get_page", !.attempt = @ + 1, !.attempts = @ + 1,
                   !.log = Append(@, outcome)]
    ELSE [c EXCEPT !.pc = "done", !.log = Append(@, outcome), !.returned = "None"]

\* a pass failed: "continue" with the next attempt, or "return None"
Retry(c, outcome) ==
    IF Again(c.attempt)
    THEN [c EXCEPT !.pc = "get_page", !.attempt = @ + 1, !.attempts = @ + 1,
                   !.log = Append(@, outcome)]
    ELSE [c EXCEPT !.pc = "done", !.log = Append(@, outcome), !.returned = "None"]

\* the call after a pass that ended with this outcome
After(c, outcome) ==
    CASE outcome = "html" ->
            [c EXCEPT !.pc = "done", !.log = Append(@, outcome), !.returned = "html"]
      [] outcome = "site_error" ->
            [c EXCEPT !.pc = "done", !.log = Append(@, outcome), !.returned = "None"]
      [] OTHER -> Retry(c, outcome)

\* how the block under "async with pw_manager.get_page() as page" is left
How(outcome) ==
    CASE outcome = "html" -> "normal"
      [] outcome = "raised" -> "exception"
      [] OTHER -> "return"

\* fetch_schedule_html(city, street, house) is called: attempt 0 begins
Call(t) ==
    /\ fetch_call[t].pc \in {"off", "done"}
    /\ fetch_call' = [fetch_call EXCEPT
          ![t] = [NoFetch[t] EXCEPT !.pc = "get_page", !.attempts = 1]]
    /\ UNCHANGED <<Rest, pw_manager>>

\* async with pw_manager.get_page() as page: the lock is taken
GetPageLock(t) ==
    /\ fetch_call[t].pc = "get_page"
    /\ Acquire(t)
    /\ UNCHANGED fetch_call

\* ... _ensure_browser runs; what it raises reaches "except Exception"
GetPageBrowser(t, outcome) ==
    /\ fetch_call[t].pc = "get_page"
    /\ EnsureBrowser(t, outcome)
    /\ fetch_call' =
          IF Raised(pw_manager, outcome)
          THEN [fetch_call EXCEPT ![t] = Retry(@, "raised")]
          ELSE fetch_call

\* ... new_page runs and the page is yielded to the loop body
GetPagePage(t, ok) ==
    /\ fetch_call[t].pc = "get_page"
    /\ NewPage(t, ok)
    /\ fetch_call' =
          IF ok
          THEN [fetch_call EXCEPT ![t].pc = "page", ![t].page_of = fetch_call[t].attempts]
          ELSE [fetch_call EXCEPT ![t] = Retry(@, "raised")]

\* the loop body from page.goto to the end of the block: the block is left,
\* get_page closes the page, and the loop goes on or the call returns
Scrape_keepsPage(t, outcome) ==
    /\ fetch_call[t].pc = "page"
    /\ IF After(fetch_call[t], outcome).pc = "get_page"
       THEN UNCHANGED <<Rest, pw_manager>>
       ELSE Leave(t, How(outcome))
    /\ fetch_call' = [fetch_call EXCEPT ![t] = After(@, outcome)]

Scrape(t, outcome) ==
    /\ fetch_call[t].pc = "page"
    /\ Leave(t, How(outcome))
    /\ fetch_call' = [fetch_call EXCEPT ![t] = After(@, outcome)]

NextFetch ==
    \/ \E t \in Callers : Call(t)
    \/ \E t \in Callers : GetPageLock(t)
    \/ \E t \in Callers, outcome \in Outcomes : GetPageBrowser(t, outcome)
    \/ \E t \in Callers, ok \in BOOLEAN : GetPagePage(t, ok)
    \/ \E t \in Callers, outcome \in ScrapeOutcomes : Scrape(t, outcome)
    \/ Idle5Minutes

SpecFetch == InitStore /\ [][NextFetch]_vars

\* ------------------------------------------------ compute_hash on its own
RECURSIVE TextsOfLen(_)
TextsOfLen(n) ==
    IF n = 0 THEN {<<>>}
    ELSE {<<c>> \o t : c \in Alphabet, t \in TextsOfLen(n - 1)}

Texts == UNION {TextsOfLen(n) : n \in 0..MaxLen}

InitHash ==
    /\ subscriptions = <<>>
    /\ next_id = 1
    /\ worker = [w \in Workers |-> Idle]
    /\ ready_events = 0
    /\ delivered = {}
    /\ reply = NoReply
    /\ text \in Texts \X Texts
    /\ digest = <<NULL, NULL>>
    /\ pw_manager = NoBrowser
    /\ fetch_call = NoFetch
    /\ bot = NoBot

\* compute_hash applied to both texts
Hash ==
    /\ digest = <<NULL, NULL>>
    /\ digest' = <<compute_hash(text[1]), compute_hash(text[2])>>
    /\ UNCHANGED <<subscriptions, next_id, worker, ready_events, delivered, reply, text,
                   pw_manager, fetch_call, bot>>

SpecHash == InitHash /\ [][Hash]_vars

\* ------------------------------------- the autocomplete step on its own
\* After a value has been typed into the city or the street field the site
\* shows a list of suggestions, or none within the timeout; text holds the
\* typed value and the list, reply what the step did.
Letters == {"a", "A", "b"}

RECURSIVE WordsOfLen(_)
WordsOfLen(n) ==
    IF n = 0 THEN {<<>>}
    ELSE {<<c>> \o t : c \in Letters, t \in WordsOfLen(n - 1)}

Words(n) == UNION {WordsOfLen(k) : k \in 1..n}

RECURSIVE ListsOfLen(_, _)
ListsOfLen(n, W) ==
    IF n = 0 THEN {<<>>}
    ELSE {<<x>> \o l : x \in W, l \in ListsOfLen(n - 1, W)}

InitSuggest ==
    /\ subscriptions = <<>>
    /\ next_id = 1
    /\ worker = [w \in Workers |-> Idle]
    /\ ready_events = 0
    /\ delivered = {}
    /\ reply = NoReply
    /\ \E typed \in Words(MaxTyped), n \in 0..MaxItems :
          \E items \in ListsOfLen(n, Words(MaxTyped)) : text = <<typed, items>>
    /\ digest = <<NULL, NULL>>
    /\ pw_manager = NoBrowser
    /\ fetch_call = NoFetch
    /\ bot = NoBot

\* items = query_selector_all(AUTOCOMPLETE_ITEM); if items: items[0].click();
\* without a list, "if not city_ok": press Enter
autocomplete(items) ==
    IF items # <<>>
    THEN [op |-> "autocomplete", clicked |-> 1, enter |-> FALSE]
    ELSE [op |-> "autocomplete", clicked |-> 0, enter |-> TRUE]

Autocomplete ==
    /\ reply = NoReply
    /\ reply' = autocomplete(text[2])
    /\ UNCHANGED <<subscriptions, next_id, worker, ready_events, delivered, text, digest,
                   pw_manager, fetch_call, bot>>

SpecSuggest == InitSuggest /\ [][Autocomplete]_vars

\* ------------------------------------- Bot.py: check_schedule_updates
\* Users register and delete their address with the commands while
\* check_schedule_updates runs every 30 minutes.  A schedule text is the
\* pair of its "ℹ️ ..." paragraph (the date of the update) and the rest;
\* get_outage_schedule returns such a text or, after an exception, its
\* error text.
Infos == {"d1", "d2"}
Bodies == {"s1", "s2"}
ScheduleTexts == {<<i, b>> : i \in Infos, b \in Bodies}
ErrorText == <<"", "error">>

\* re.sub(r'ℹ️.*?\n\n', '', schedule)
Clean(schedule) == <<"", schedule[2]>>

\* update_user_schedule: UPDATE users SET last_schedule WHERE discord_id;
\* an exception is caught and False returned
update_user_schedule(users, discord_id, schedule, ok) ==
    IF ok /\ discord_id \in DOMAIN users
    THEN [users EXCEPT ![discord_id] = schedule]
    ELSE users

BotOnly ==
    <<subscriptions, next_id, worker, ready_events, delivered, reply, text, digest,
      pw_manager, fetch_call>>

\* slash_check_power with an address: save_user_address inserts the row
\* without last_schedule, or updates the address of the row there is
SlashSave(u, ok) ==
    /\ bot' = [bot EXCEPT
          !.users = IF ok /\ u \notin DOMAIN bot.users
                    THEN [v \in DOMAIN bot.users \cup {u} |->
                             IF v = u THEN NULL ELSE bot.users[v]]
                    ELSE @]
    /\ UNCHANGED BotOnly

\* slash_check_power, with an address or with the stored one: its scrape
\* has returned and update_user_schedule(discord_id, schedule) is called
SlashUpdate(u, result, ok) ==
    /\ bot' = [bot EXCEPT !.users = update_user_schedule(@, u, result, ok)]
    /\ UNCHANGED BotOnly

\* slash_delete_address: delete_user
DeleteUser(u) ==
    /\ u \in DOMAIN bot.users
    /\ bot' = [bot EXCEPT !.users = [v \in DOMAIN bot.users \ {u} |-> bot.users[v]]]
    /\ UNCHANGED BotOnly

\* the rows of SELECT * FROM users, in any order
AllUsers(users) ==
    {rows \in [1..Cardinality(DOMAIN users) -> DOMAIN users] :
        \A i, j \in DOMAIN rows : i # j => rows[i] # rows[j]}

\* the run begins: users = get_all_users(), [] when the store fails
UpdatesStart(ok) ==
    /\ bot.updates.pc = "idle"
    /\ \E order \in AllUsers(bot.users) :
          LET rows == IF ok
                      THEN [i \in DOMAIN order |->
                               [discord_id |-> order[i], last_schedule |-> bot.users[order[i]]]]
                      ELSE <<>>
          IN  bot' = [bot EXCEPT !.updates =
                  [IdleUpdates EXCEPT !.rows = rows,
                                      !.pc = IF rows = <<>> THEN "idle" ELSE "scrape",
                                      !.k = IF rows = <<>> THEN 0 ELSE 1]]
    /\ UNCHANGED BotOnly

\* the loop is left: by its end or through "except Exception" of the task
UpdatesEnd(l) == IdleUpdates

\* get_outage_schedule has returned; the comparison; update_user_schedule.
\* re.sub raises TypeError for a last_schedule that is None.
UpdatesScrape_keepsStored(result, ok) ==
    /\ bot.updates.pc = "scrape"
    /\ LET l == bot.updates
           user == l.rows[l.k]
           old_schedule == user.last_schedule
       IN  bot' =
             IF old_schedule = NULL
             THEN [bot EXCEPT !.updates = UpdatesEnd(l)]
             ELSE IF Clean(result) # Clean(old_schedule)
             THEN [bot EXCEPT
                     !.updates = [l EXCEPT !.pc = "send", !.new = result,
                                           !.failed = ~ok,
                                           !.checked = @ \cup {user.discord_id}]]
             ELSE [bot EXCEPT
                     !.updates = [l EXCEPT !.pc = "sleep", !.new = result,
                                           !.checked = @ \cup {user.discord_id}]]
    /\ UNCHANGED BotOnly

UpdatesScrape(result, ok) ==
    /\ bot.updates.pc = "scrape"
    /\ LET l == bot.updates
           user == l.rows[l.k]
           old_schedule == user.last_schedule
       IN  bot' =
             IF old_schedule = NULL
             THEN [bot EXCEPT !.updates = UpdatesEnd(l)]
             ELSE IF Clean(result) # Clean(old_schedule)
             THEN [bot EXCEPT
                     !.users = update_user_schedule(@, user.discord_id, result, ok),
                     !.updates = [l EXCEPT !.pc = "send", !.new = result,
                                           !.failed = ~ok,
                                           !.checked = @ \cup {user.discord_id}]]
             ELSE [bot EXCEPT
                     !.updates = [l EXCEPT !.pc = "sleep", !.new = result,
                                           !.checked = @ \cup {user.discord_id}]]
    /\ UNCHANGED BotOnly

\* get_outage_schedule raises: driver.quit() fails inside its handler
UpdatesScrapeRaises ==
    /\ bot.updates.pc = "scrape"
    /\ bot' = [bot EXCEPT !.updates = UpdatesEnd(@)]
    /\ UNCHANGED BotOnly

\* bot.fetch_user and user_obj.send(embed), inside their own try
UpdatesSend(ok) ==
    /\ bot.updates.pc = "send"
    /\ LET l == bot.updates
           u == l.rows[l.k].discord_id
       IN  bot' = [bot EXCEPT
             !.updates = [l EXCEPT !.pc = "sleep", !.tries = @ + 1,
                                   !.sent = IF ok THEN "ok" ELSE "failed"]]
    /\ UNCHANGED BotOnly

\* asyncio.sleep(5), then the next user or the end of the run
UpdatesSleep ==
    /\ bot.updates.pc = "sleep"
    /\ bot' = [bot EXCEPT !.updates =
          IF @.k < Len(@.rows)
          THEN [@ EXCEPT !.pc = "scrape", !.k = @ + 1, !.new = NULL, !.failed = FALSE,
                         !.tries = 0, !.sent = "none"]
          ELSE UpdatesEnd(@)]
    /\ UNCHANGED BotOnly

NextUpdates ==
    \/ \E u \in Owners, ok \in BOOLEAN : SlashSave(u, ok)
    \/ \E u \in Owners, result \in ScheduleTexts \cup {ErrorText}, ok \in BOOLEAN :
          SlashUpdate(u, result, ok)
    \/ \E u \in Owners : DeleteUser(u)
    \/ \E ok \in BOOLEAN : UpdatesStart(ok)
    \/ \E result \in ScheduleTexts \cup {ErrorText}, ok \in BOOLEAN :
          UpdatesScrape(result, ok)
    \/ UpdatesScrapeRaises
    \/ \E ok \in BOOLEAN : UpdatesSend(ok)
    \/ UpdatesSleep

SpecUpdates == InitStore /\ [][NextUpdates]_vars

\* ------------------------------------- Bot.py: check_upcoming_outages
\* The commands insert notification rows and delete a user's rows, time
\* passes, and check_upcoming_outages runs every 5 minutes.  The
\* outage_time of a row is kept as where it lies: "later" than the next 30
\* minutes, "soon" (within them), "past", or "old" (past for more than 24
\* hours).
Phases == <<"later", "soon", "past", "old">>

PhaseRank(phase) == CHOOSE j \in 1..Len(Phases) : Phases[j] = phase

\* slash_check_power: save_outage_notification for a time of the schedule;
\* a time of today that has passed is taken as tomorrow's
SaveNotification(u, phase, ok) ==
    /\ bot.next_notification <= MaxNotifications
    /\ bot' = IF ok
              THEN [bot EXCEPT
                      !.outage_notifications =
                          [i \in DOMAIN @ \cup {bot.next_notification} |->
                              IF i = bot.next_notification
                              THEN [discord_id |-> u, outage_time |-> phase,
                                    notified |-> FALSE]
                              ELSE @[i]],
                      !.next_notification = @ + 1]
              ELSE bot
    /\ UNCHANGED BotOnly

\* delete_user: DELETE FROM outage_notifications WHERE discord_id
DeleteNotifications(u) ==
    /\ \E i \in DOMAIN bot.outage_notifications :
          bot.outage_notifications[i].discord_id = u
    /\ bot' = [bot EXCEPT !.outage_notifications =
          [i \in {j \in DOMAIN @ : @[j].discord_id # u} |-> @[i]]]
    /\ UNCHANGED BotOnly

\* time passes for the outage of row i
TimePasses(i) ==
    /\ i \in DOMAIN bot.outage_notifications
    /\ PhaseRank(bot.outage_notifications[i].outage_time) < Len(Phases)
    /\ bot' = [bot EXCEPT !.outage_notifications[i].outage_time =
          Phases[PhaseRank(@) + 1]]
    /\ UNCHANGED BotOnly

\* get_pending_notifications: WHERE notified = FALSE ORDER BY outage_time
RECURSIVE Pending(_, _)
Pending(t, S) ==
    IF S = {} THEN <<>>
    ELSE LET i == CHOOSE x \in S : \A y \in S :
                    \/ PhaseRank(t[x].outage_time) > PhaseRank(t[y].outage_time)
                    \/ /\ PhaseRank(t[x].outage_time) = PhaseRank(t[y].outage_time)
                       /\ x <= y
         IN  <<[id |-> i, discord_id |-> t[i].discord_id,
                outage_time |-> t[i].outage_time]>> \o Pending(t, S \ {i})

get_pending_notifications(t) == Pending(t, {i \in DOMAIN t : ~t[i].notified})

\* the loop from row k on: rows outside "now < outage_time <= now + 30
\* minutes" are passed over; after the last row, delete_old_notifications
OutagesGoOn(l, k) ==
    LET due == {j \in k..Len(l.rows) : l.rows[j].outage_time = "soon"}
    IN  IF due = {} THEN [l EXCEPT !.pc = "cleanup", !.k = 0]
        ELSE [l EXCEPT !.pc = "warn", !.k = CHOOSE j \in due : \A h \in due : j <= h]

\* the run begins: now, notifications = get_pending_notifications(), []
\* when the store fails
OutagesStart(ok) ==
    /\ bot.outages.pc = "idle"
    /\ bot' = [bot EXCEPT !.outages =
          OutagesGoOn([IdleOutages EXCEPT !.rows =
              IF ok THEN get_pending_notifications(bot.outage_notifications) ELSE <<>>], 1)]
    /\ UNCHANGED BotOnly

\* mark_notification_sent: UPDATE ... SET notified = TRUE WHERE id; an
\* exception is caught and False returned
mark_notification_sent(t, id, ok) ==
    IF ok /\ id \in DOMAIN t THEN [t EXCEPT ![id].notified = TRUE] ELSE t

\* bot.fetch_user, get_user_address, user.send(embed) and, once the send has
\* returned, mark_notification_sent; an exception of the first three is
\* caught inside the loop
OutagesSend_marksAnyway(ok, marked) ==
    /\ bot.outages.pc = "warn"
    /\ LET l == bot.outages
           id == l.rows[l.k].id
       IN  /\ ok => bot.warned[id] < MaxWarnings
           /\ bot' = [bot EXCEPT
                 !.outage_notifications = mark_notification_sent(@, id, marked),
                 !.warned[id] = IF ok THEN @ + 1 ELSE @,
                 !.unmarked = IF ok /\ ~marked THEN @ \cup {id} ELSE @,
                 !.outages = OutagesGoOn(l, l.k + 1)]
    /\ UNCHANGED BotOnly

OutagesSend(ok, marked) ==
    /\ bot.outages.pc = "warn"
    /\ LET l == bot.outages
           id == l.rows[l.k].id
       IN  /\ ok => bot.warned[id] < MaxWarnings
           /\ bot' = [bot EXCEPT
                 !.outage_notifications =
                     IF ok THEN mark_notification_sent(@, id, marked) ELSE @,
                 !.warned[id] = IF ok THEN @ + 1 ELSE @,
                 !.unmarked = IF ok /\ ~marked THEN @ \cup {id} ELSE @,
                 !.outages = OutagesGoOn(l, l.k + 1)]
    /\ UNCHANGED BotOnly

\* delete_old_notifications(24), and the run is over
OutagesCleanup ==
    /\ bot.outages.pc = "cleanup"
    /\ bot' = [bot EXCEPT
          !.outage_notifications =
              [i \in {j \in DOMAIN @ : @[j].outage_time # "old"} |-> @[i]],
          !.outages = IdleOutages]
    /\ UNCHANGED BotOnly

NextOutages ==
    \/ \E u \in Owners, phase \in {"later", "soon"}, ok \in BOOLEAN :
          SaveNotification(u, phase, ok)
    \/ \E u \in Owners : DeleteNotifications(u)
    \/ \E i \in 1..MaxNotifications : TimePasses(i)
    \/ \E ok \in BOOLEAN : OutagesStart(ok)
    \/ \E ok, marked \in BOOLEAN : OutagesSend(ok, marked)
    \/ OutagesCleanup

SpecOutages == InitStore /\ [][NextOutages]_vars

\* ================================================================ claims

\* The row of the subscription worker w is processing, if it is still stored.
Exists(w) == worker[w].pc \in Processing /\ Sub(w).id \in DOMAIN subscriptions
Stored(w) == subscriptions[Sub(w).id]
StoredAfter(w) == subscriptions'[Sub(w).id]

\* The steps of worker w: its update_subscription_hash call returns (in the
\* loop body, in the handler), its fetch returns, its send returns.
RecordStep(w) == worker[w].pc \in Recording /\ worker'[w].pc = "pause"
HandlerStep(w) ==
    worker[w].pc = "except" /\ worker'[w].pc # "except" /\ ~worker'[w].crashed
FetchStep(w) == worker[w].pc = "fetch" /\ worker'[w].pc # "fetch"
SendStep(w) == worker[w].pc = "send" /\ worker'[w].pc # "send"
SelectStep(w) == worker[w].pc = "select" /\ worker'[w].pc \in {"fetch", "wait"}
                    /\ ~worker'[w].crashed

\* last_checked of row i is now(): later than every other row's
Newest(t, i) == \A j \in DOMAIN t \ {i} : t[j].last_checked < t[i].last_checked

ChangeRecording == {"record_delivered", "record_undelivered", "record_unrendered"}

C2_NoChangeSkipsNotify ==
    [][\A w \in Workers :
          /\ (FetchStep(w) /\ Exists(w) /\ worker'[w].pc # "record_fetch_failed"
                /\ worker'[w].current_hash = Stored(w).last_hash) =>
                worker'[w].pc = "record_unchanged"
          /\ (RecordStep(w) /\ worker[w].pc = "record_unchanged" /\ Exists(w)) =>
                /\ worker[w].sends = 0
                /\ delivered' = delivered
                /\ StoredAfter(w).last_hash = Stored(w).last_hash
                /\ Newest(subscriptions', Sub(w).id)]_vars

\* C3: a failed fetch adds exactly 1 to that subscription's error_count
\* (in the loop body or, after a store exception, in the handler) and
\* leaves the batch as it was; and a tick of N subscriptions that did not
\* end in the store's own exception has recorded every one of the N.
C3_ErrorIsolation ==
    [][\A w \in Workers :
          /\ (RecordStep(w) /\ worker[w].pc = "record_fetch_failed") =>
                /\ worker'[w].subs = worker[w].subs /\ worker'[w].k = worker[w].k
                /\ Exists(w) =>
                      StoredAfter(w).error_count = Stored(w).error_count + 1
          /\ (HandlerStep(w) /\ Exists(w)) =>
                StoredAfter(w).error_count = Stored(w).error_count + 1
          /\ (worker'[w].pc = "wait" /\ ~worker'[w].crashed) =>
                \A j \in 1..Len(worker'[w].subs) :
                    worker'[w].subs[j].id \in worker'[w].recorded]_vars

\* A tick of two subscriptions is over: the fetch of the first failed and
\* the second was fetched and recorded.
C3_Witness ==
    \E w \in Workers :
        /\ worker[w].pc = "wait" /\ ~worker[w].crashed
        /\ Len(worker[w].subs) = 2
        /\ \A j \in 1..2 : worker[w].subs[j].id \in DOMAIN subscriptions
        /\ subscriptions[worker[w].subs[1].id].error_count = 1
        /\ subscriptions[worker[w].subs[1].id].last_hash = NULL
        /\ subscriptions[worker[w].subs[2].id].error_count = 0
        /\ subscriptions[worker[w].subs[2].id].last_hash # NULL

\* C4: fetch_n_oldest never returns a subscription whose error_count has
\* reached ERROR_THRESHOLD, and no such subscription is fetched or notified.
C4_Quarantine ==
    [][\A w \in Workers :
          /\ SelectStep(w) =>
                \A j \in 1..Len(worker'[w].subs) :
                    subscriptions[worker'[w].subs[j].id].error_count < ERROR_THRESHOLD
          /\ ((FetchStep(w) \/ SendStep(w)) /\ Exists(w)) =>
                Stored(w).error_count < ERROR_THRESHOLD]_vars

C6_AtLeastOnce ==
    [][/\ \A i \in DOMAIN subscriptions' :
             subscriptions'[i].last_hash # NULL =>
                 <<i, subscriptions'[i].discord_user_id, subscriptions'[i].last_hash>>
                     \in delivered'
       /\ \A w \in Workers :
             (/\ \/ RecordStep(w) /\ worker[w].pc \in {"record_undelivered", "record_unrendered"}
                 \/ HandlerStep(w) /\ worker[w].current_hash # NULL
              /\ Exists(w)) =>
                 \/ Changed(worker[w].current_hash, StoredAfter(w).last_hash)
                 \/ <<Sub(w).id, Stored(w).discord_user_id, worker[w].current_hash>>
                        \in delivered']_vars

\* A row whose delivered fingerprint is stored has since had a change
\* recorded without delivery.
C6_Witness ==
    \E w \in Workers :
        /\ worker[w].pc = "pause" /\ Exists(w)
        /\ Stored(w).last_hash # NULL
        /\ Stored(w).last_hash # worker[w].current_hash
        /\ Stored(w).error_count > 0

C8_NullBaseline ==
    [][\A w \in Workers :
          /\ (FetchStep(w) /\ Sub(w).last_hash = NULL
                /\ worker'[w].pc # "record_fetch_failed") =>
                /\ worker'[w].pc = "render"
                /\ worker'[w].html \in SiteFragments
                /\ worker'[w].current_hash = compute_hash(worker'[w].html)
          /\ (worker[w].pc = "render" /\ worker'[w].pc = "send") =>
                worker'[w].png = PNG(worker[w].html)
          /\ (SendStep(w) /\ worker'[w].pc = "record_delivered" /\ Exists(w)) =>
                <<Sub(w).id, Sub(w).discord_user_id,
                  compute_hash(Rendered(worker[w].png))>> \in delivered']_vars

\* The first fetch of a new subscription was delivered.
C8_Witness ==
    \E w \in Workers :
        /\ worker[w].pc = "record_delivered" /\ Exists(w)
        /\ Sub(w).last_hash = NULL
        /\ <<Sub(w).id, Sub(w).discord_user_id, worker[w].current_hash>> \in delivered

\* The claim's own normal form of a text: first every run of whitespace is
\* collapsed to one space, then a space at either end is dropped.
CollapseRuns(s) ==
    LET keep == {i \in 1..Len(s) :
                    s[i] \notin Whitespace \/ i = 1 \/ s[i - 1] \notin Whitespace}
        nth(j) == CHOOSE i \in keep : Cardinality({x \in keep : x <= i}) = j
    IN  [j \in 1..Cardinality(keep) |->
            IF s[nth(j)] \in Whitespace THEN " " ELSE s[nth(j)]]

Trim(s) ==
    LET a == IF s # <<>> /\ s[1] = " " THEN 2 ELSE 1
        b == IF s # <<>> /\ s[Len(s)] = " " THEN Len(s) - 1 ELSE Len(s)
    IN  SubSeq(s, a, b)

Hashed == digest # <<NULL, NULL>>

\* C9: compute_hash(A) = compute_hash(B) exactly when A and B are equal
\* after collapsing every run of whitespace to one space and trimming.
C9_FingerprintStability ==
    Hashed =>
        ((digest[1] = digest[2]) <=>
            (Trim(CollapseRuns(text[1])) = Trim(CollapseRuns(text[2]))))

\* Two different texts that differ only in whitespace got the same digest.
C9_Witness ==
    /\ Hashed
    /\ text[1] # text[2]
    /\ Len(text[1]) = MaxLen
    /\ digest[1] = digest[2]
    /\ \E i \in 1..Len(text[1]) : text[1][i] \notin Whitespace

KeyCount(u, c, s, h) ==
    Cardinality({i \in DOMAIN subscriptions : SameKey(subscriptions[i], u, c, s, h)})

\* C10: the store holds at most one row per (owner, city, street, house)
\* after any sequence of add and remove calls, and an add that returned
\* (a first one or a repeated one) leaves exactly one row of its key; an
\* add never ends in an exception, it returns True or False.
C10_IdempotentSubscribe ==
    /\ \A u \in Owners, h \in Houses : KeyCount(u, TheCity, TheStreet, h) <= 1
    /\ reply.op = "add" =>
          /\ reply.returned \in BOOLEAN
          /\ reply.returned => KeyCount(reply.user, TheCity, TheStreet, reply.house) = 1

\* add was called for a key already stored, next to a row of another key.
C10_Witness ==
    /\ reply.op = "add" /\ reply.existed /\ reply.returned
    /\ KeyCount(reply.user, TheCity, TheStreet, reply.house) = 1
    /\ Cardinality(DOMAIN subscriptions) = 2

\* C11: add_subscription returns True only when it created a row; for a
\* subscription already present it does not return True, and cmd_start
\* answers "already added".
C11_AddReportsExisting ==
    reply.op = "add" =>
        /\ reply.returned => ~reply.existed
        /\ reply.existed => reply.message = "already added"

BatchIds == {reply.rows[j].id : j \in 1..Len(reply.rows)}

\* C12: fetch_n_oldest(limit) returns at most limit rows (exactly limit
\* when that many are eligible), each once and as stored, all with
\* error_count < ERROR_THRESHOLD, and no eligible row left out has a
\* last_checked strictly older than one that was returned.
C12_SelectsOldest ==
    reply.op = "select" =>
        /\ Len(reply.rows) <= reply.limit
        /\ Cardinality(BatchIds) = Len(reply.rows)
        /\ BatchIds \subseteq DOMAIN subscriptions
        /\ \A j \in 1..Len(reply.rows) :
              /\ subscriptions[reply.rows[j].id].error_count < ERROR_THRESHOLD
              /\ reply.rows[j] = Snapshot(subscriptions, reply.rows[j].id)
        /\ \A i \in DOMAIN subscriptions \ BatchIds :
              subscriptions[i].error_count < ERROR_THRESHOLD =>
                  /\ Len(reply.rows) = reply.limit
                  /\ \A j \in BatchIds :
                        ~(subscriptions[i].last_checked < subscriptions[j].last_checked)

\* A full batch of more than one row was returned; the oldest row of the
\* table is quarantined and an eligible row was left out.
C12_Witness ==
    /\ reply.op = "select" /\ reply.limit > 1
    /\ Len(reply.rows) = reply.limit
    /\ \E i \in DOMAIN subscriptions :
          /\ subscriptions[i].error_count >= ERROR_THRESHOLD
          /\ subscriptions[i].last_checked = 1
    /\ \E i \in DOMAIN subscriptions \ BatchIds :
          subscriptions[i].error_count < ERROR_THRESHOLD

\* C13: update_subscription_hash leaves every other row as it is (their
\* last_checked values keep their order and stay older than the new one),
\* changes nothing for an id that is not stored, sets last_checked of the
\* addressed row to now, and sets last_hash to the argument and error_count
\* to 0 on success, adds 1 to error_count and keeps last_hash on failure.
C13_UpdateFrame ==
    [][reply'.op = "update" =>
          LET id == reply'.id
              others == DOMAIN subscriptions \ {id}
          IN  /\ DOMAIN subscriptions' = DOMAIN subscriptions
              /\ \A i \in others :
                    [subscriptions'[i] EXCEPT !.last_checked = 0]
                        = [subscriptions[i] EXCEPT !.last_checked = 0]
              /\ \A i, j \in others :
                    (subscriptions[i].last_checked < subscriptions[j].last_checked)
                        <=> (subscriptions'[i].last_checked < subscriptions'[j].last_checked)
              /\ id \notin DOMAIN subscriptions => subscriptions' = subscriptions
              /\ id \in DOMAIN subscriptions =>
                    /\ Newest(subscriptions', id)
                    /\ [subscriptions'[id] EXCEPT !.last_checked = 0, !.last_hash = NULL,
                                                  !.error_count = 0]
                          = [subscriptions[id] EXCEPT !.last_checked = 0, !.last_hash = NULL,
                                                    !.error_count = 0]
                    /\ IF reply'.success
                       THEN /\ subscriptions'[id].last_hash = reply'.hash
                            /\ subscriptions'[id].error_count = 0
                       ELSE /\ subscriptions'[id].last_hash = subscriptions[id].last_hash
                            /\ subscriptions'[id].error_count
                                  = subscriptions[id].error_count + 1]_vars

\* A failed check was recorded, with a new hash as argument, for a row that
\* was not the newest of a full table and had a hash stored.
C13_Witness ==
    /\ reply.op = "update" /\ ~reply.success /\ reply.hash # <<>>
    /\ Len(subscriptions) = MaxRows
    /\ reply.id \in DOMAIN subscriptions
    /\ subscriptions[reply.id].last_hash \notin {NULL, reply.hash}
    /\ subscriptions[reply.id].error_count = ERROR_THRESHOLD
    /\ subscriptions[reply.id].last_checked = MaxRows

\* worker_loop has selected subscription i and is fetching its schedule
Checking(i) == \E w \in Workers : worker[w].pc = "fetch" /\ Sub(w).id = i

\* C14: with a fixed set of subscriptions and awaits that return, every
\* subscription is checked again and again unless its error_count reaches
\* ERROR_THRESHOLD.
C14_NoStarvation ==
    \A i \in 1..MaxRows :
        \/ <>(subscriptions[i].error_count >= ERROR_THRESHOLD)
        \/ []<>Checking(i)

\* The subscription left out of the first batch is checked after an older
\* one has been quarantined.
C14_Witness ==
    /\ Checking(MaxRows)
    /\ \E i \in 1..NumFailing : subscriptions[i].error_count >= ERROR_THRESHOLD
    /\ subscriptions[MaxRows].last_hash # NULL

\* C15: at most one worker_loop task is running and at most one
\* subscription is being processed, however often on_ready has fired.
C15_SingleWorker ==
    /\ Cardinality({w \in Workers : worker[w].pc # "off"}) <= 1
    /\ Cardinality({w \in Workers : worker[w].pc \in Processing}) <= 1

Using == {t \in Callers : pw_manager.caller[t].pc = "using"}

\* C16: at most one caller holds a page it got from get_page; a second
\* get_page completes only after the first page was released.
C16_OnePageAtATime == Cardinality(Using) <= 1

\* C17: a caller holds a page only inside its get_page block, however the
\* block was left, and the lock is held only by a caller that is between
\* "async with self._lock" and the end of that block.
C17_ScopedRelease ==
    /\ pw_manager.lock \in Callers \cup {0}
    /\ \A t \in Callers :
          /\ pw_manager.caller[t].page # 0 => pw_manager.caller[t].pc = "using"
          /\ pw_manager.lock = t <=> pw_manager.caller[t].pc \in {"ensure", "new_page"}

\* One caller left its block by an exception, the get_page of another
\* failed; no page is held and the lock is free.
C17_Witness ==
    /\ pw_manager.lock = 0
    /\ \E t, u \in Callers :
          /\ pw_manager.caller[t].pc = "idle" /\ pw_manager.caller[t].left = "exception"
          /\ pw_manager.caller[u].pc = "idle" /\ pw_manager.caller[u].left = "none"
          /\ pw_manager.caller[u].result = "None"

\* C18: at most one browser is launched and not closed, and none before
\* the first get_page.
C18_OneBrowser ==
    /\ Cardinality(pw_manager.live) <= 1
    /\ pw_manager = NoBrowser => pw_manager.live = {}

\* C19: when get_page finds the browser unused for more than 5 minutes,
\* _ensure_browser closes it, and if it returns it has created a new
\* browser, from which the page is then handed out.
C19_IdleTeardown ==
    [][\A t \in Callers :
          /\ (pw_manager.caller[t].pc = "ensure" /\ pw_manager'.caller[t].pc # "ensure"
                /\ pw_manager.context # 0 /\ pw_manager.last_used = "old") =>
                /\ pw_manager.browser \notin pw_manager'.live
                /\ pw_manager.browser \in pw_manager'.recycled
                /\ pw_manager'.caller[t].pc = "new_page" =>
                      /\ pw_manager'.context \notin {0, pw_manager.context}
                      /\ pw_manager'.context \in pw_manager'.live
          /\ (pw_manager.caller[t].pc = "new_page" /\ pw_manager'.caller[t].pc = "using") =>
                /\ pw_manager'.caller[t].page = pw_manager.context
                /\ pw_manager'.caller[t].page \in pw_manager.live \ pw_manager.recycled]_vars

\* A caller holds a page of a browser launched after an idle one was closed.
C19_Witness ==
    \E t \in Callers :
        /\ pw_manager.caller[t].pc = "using"
        /\ pw_manager.recycled # {}
        /\ ~pw_manager.stopped
        /\ pw_manager.live = {pw_manager.caller[t].page}
        /\ \A b \in pw_manager.recycled : b < pw_manager.caller[t].page

\* C20: after a failed construction the lock is free and the caller got
\* None; a context the manager keeps is fully configured (otherwise the
\* next get_page would not construct again), and so is the context of
\* every page handed out.
C20_ConstructionRetried ==
    /\ pw_manager.context # 0 => pw_manager.configured
    /\ \A t \in Callers :
          /\ pw_manager.caller[t].pc = "using" => pw_manager.caller[t].set
          /\ (pw_manager.caller[t].pc = "idle" /\ pw_manager.caller[t].result = "None") =>
                pw_manager.lock # t

\* C21: shutdown does not close the browser of a page that a caller still
\* holds; the browser stays open until that page has been released.
C21_ShutdownWaits ==
    [][(~pw_manager.stopped /\ pw_manager'.stopped) =>
          \A t \in Using :
              pw_manager.caller[t].page \in pw_manager.live =>
                  pw_manager.caller[t].page \in pw_manager'.live]_vars

\* C22: one call of fetch_schedule_html makes at most max_retries = 2 scrape
\* attempts; the second begins only after the first ended in failure, and
\* once the call has returned its attempts stay as they are until the next call.
C22_RetryBound ==
    [][\A t \in Callers :
          LET c == fetch_call[t]
              d == fetch_call'[t]
              called == c.pc \in {"off", "done"} /\ d.attempts = 1 /\ d.log = <<>>
          IN  /\ d.attempts <= max_retries
              /\ d.attempts # c.attempts =>
                    \/ called
                    \/ /\ c.pc \notin {"off", "done"}
                       /\ d.attempts = c.attempts + 1
                       /\ Len(d.log) = c.attempts
                       /\ d.log[Len(d.log)] # "html"
              /\ (c.pc = "done" /\ d # c) => called]_vars

\* a call has returned the fragment of its second attempt
C22_Witness ==
    \E t \in Callers :
        /\ fetch_call[t].pc = "done"
        /\ fetch_call[t].attempts = max_retries
        /\ fetch_call[t].returned = "html"

\* the outcome of the attempt a call has just finished, "none" before that
Last(c) == IF c.log = <<>> THEN "none" ELSE c.log[Len(c.log)]

\* C25: a call whose last attempt found no result container but a page that
\* says nothing was found returns a fragment, not None, so that the check
\* counts as a success.
C25_NotFoundIsSuccess ==
    \A t \in Callers :
        (fetch_call[t].pc = "done" /\ Last(fetch_call[t]) = "site_error") =>
            fetch_call[t].returned = "html"

\* C26: an attempt that ends because a required form field did not appear
\* ends the call with None; no further attempt follows it.
C26_NoFurtherAttempt ==
    [][\A t \in Callers :
          (fetch_call'[t].log # fetch_call[t].log /\ Last(fetch_call'[t]) = "no_field") =>
              (fetch_call'[t].pc = "done" /\ fetch_call'[t].returned = "None")]_vars

\* C28: when the next attempt of a call begins, the caller holds no page,
\* the page of the attempt before having been closed; and the page an
\* attempt scrapes is the one get_page handed out in that same attempt.
C28_FreshPagePerAttempt ==
    [][\A t \in Callers :
          LET c == fetch_call[t]
              d == fetch_call'[t]
              held == pw_manager'.caller[t]
          IN  /\ d.attempts # c.attempts => (held.pc = "idle" /\ held.page = 0)
              /\ d.pc = "page" =>
                    (held.pc = "using" /\ held.page # 0 /\ d.page_of = d.attempts)]_vars

\* the second attempt of a call has its page
C28_Witness ==
    \E t \in Callers :
        /\ fetch_call[t].pc = "page"
        /\ fetch_call[t].attempts = max_retries
        /\ fetch_call[t].page_of = max_retries
        /\ pw_manager.caller[t].pc = "using"

\* C23: a started worker_loop never stops; a new tick begins only from the
\* start or from the sleep of the interval; a tick, whether it went through
\* its batch, found none or met an exception, ends in that sleep; and the
\* sleep is followed by the next tick.
C23_LoopNeverStops ==
    [][\A w \in Workers :
          LET l == worker[w]
              n == worker'[w]
          IN  /\ l.pc # "off" => n.pc # "off"
              /\ (n.pc = "select" /\ l.pc # "select") => l.pc \in {"off", "wait"}
              /\ (l.pc \in Processing \cup {"select"} /\ n.pc \notin Processing \cup {"select"})
                    => n.pc = "wait"
              /\ (l.pc = "wait" /\ n # l) => n.pc = "select"]_vars

\* a tick has ended in the while loop's handler and the worker sleeps
C23_Witness ==
    \E w \in Workers :
        worker[w].pc = "wait" /\ worker[w].crashed /\ worker[w].recorded # {}

\* C24: send_update_to_user returns to the loop body and never reaches a
\* handler; it returns False without a message having been sent, and True
\* only with the message sent.
C24_SendNeverRaises ==
    [][\A w \in Workers :
          SendStep(w) =>
              /\ worker'[w].pc \in {"record_delivered", "record_undelivered"}
              /\ ~worker'[w].crashed
              /\ worker'[w].sends = worker[w].sends + 1
              /\ worker'[w].pc = "record_undelivered" => delivered' = delivered
              /\ (worker'[w].pc = "record_delivered" /\ Exists(w)) =>
                    <<Sub(w).id, Sub(w).discord_user_id,
                      compute_hash(Rendered(worker[w].png))>> \in delivered']_vars

\* a send has failed and the loop body goes on to record it
C24_Witness ==
    \E w \in Workers :
        worker[w].pc = "record_undelivered" /\ worker[w].sends = 1 /\ Exists(w)

\* the ids of the rows of a batch
IdsOf(subs) == {subs[j].id : j \in 1..Len(subs)}

C30_PauseBetweenSubs ==
    [][\A w \in Workers :
          (worker'[w].pc = "fetch" /\ worker[w].pc # "select"
              /\ worker'[w].k = worker[w].k + 1) =>
              worker[w].pc = "pause"]_vars

\* a letter without its case, and a text without case
Lower(ch) == IF ch = "A" THEN "a" ELSE ch
LowerText(s) == [i \in 1..Len(s) |-> Lower(s[i])]

\* the suggestion holds the typed value, case apart
Contains(item, typed) ==
    \E i \in 1..(Len(item) - Len(typed) + 1) :
        SubSeq(LowerText(item), i, i + Len(typed) - 1) = LowerText(typed)

\* C29: with a list of suggestions shown, the one clicked holds the typed
\* value, case apart, whenever some suggestion does; the first one is
\* clicked only when none does.
C29_BestMatch ==
    reply.op = "autocomplete" =>
        LET typed == text[1]
            items == text[2]
            matching == {i \in 1..Len(items) : Contains(items[i], typed)}
        IN  /\ matching # {} => reply.clicked \in matching
            /\ (matching = {} /\ items # <<>>) => reply.clicked = 1

\* C32: a send of worker_loop that succeeds is for a subscription that is
\* still stored: none reaches the owner of a row that /stop has removed.
C32_NoSendAfterStop ==
    [][\A w \in Workers :
          (SendStep(w) /\ worker'[w].pc = "record_delivered") =>
              Sub(w).id \in DOMAIN subscriptions]_vars

\* C33: a call of fetch_schedule_html that has ended has returned a fragment
\* or None, the fragment exactly when its last attempt produced one; what
\* is raised while a page is acquired, used or closed ends an attempt and
\* never the call in another way.
C33_FetchNeverRaises ==
    \A t \in Callers :
        /\ fetch_call[t].pc \in {"off", "get_page", "page", "done"}
        /\ fetch_call[t].pc = "done" =>
              /\ fetch_call[t].returned \in {"html", "None"}
              /\ fetch_call[t].returned = "html" <=> Last(fetch_call[t]) = "html"
        /\ fetch_call[t].pc # "done" => fetch_call[t].returned = "none"

\* both attempts of a call have raised and the call has returned None
C33_Witness ==
    \E t \in Callers :
        /\ fetch_call[t].pc = "done"
        /\ fetch_call[t].log = <<"raised", "raised">>
        /\ fetch_call[t].returned = "None"

\* C34: when html_to_png has returned None for a changed fragment, the
\* recording that follows finds no message sent for the subscription in this
\* pass, leaves last_hash and the sent messages as they are and adds 1 to
\* error_count; the stored last_hash, when it is the one the batch was
\* selected with, still differs from the fingerprint of the fragment, so
\* the next check finds the change again.
C34_RenderFailure ==
    [][\A w \in Workers :
          (RecordStep(w) /\ worker[w].pc = "record_unrendered" /\ Exists(w)) =>
              /\ worker[w].sends = 0
              /\ delivered' = delivered
              /\ StoredAfter(w).last_hash = Stored(w).last_hash
              /\ StoredAfter(w).error_count = Stored(w).error_count + 1
              /\ Stored(w).last_hash = Sub(w).last_hash =>
                    Changed(worker[w].current_hash, StoredAfter(w).last_hash)]_vars

\* a failed rendering has been recorded for a stored subscription
C34_Witness ==
    \E w \in Workers :
        /\ worker[w].pc = "pause" /\ Exists(w)
        /\ worker[w].sends = 0
        /\ worker[w].current_hash # NULL
        /\ Stored(w).error_count = 1
        /\ Stored(w).last_hash # worker[w].current_hash
        /\ Sub(w).id \in worker[w].recorded

\* C35: error_count of every stored subscription lies in 0..ERROR_THRESHOLD.
C35_ErrorCountBounded ==
    \A i \in DOMAIN subscriptions :
        subscriptions[i].error_count \in 0..ERROR_THRESHOLD

\* C36: a step in which _ensure_browser tears the idle browser down leaves
\* no caller with an open page of that browser.
C36_RecycleSparesPages ==
    [][pw_manager'.recycled # pw_manager.recycled =>
          \A t \in Using :
              pw_manager.caller[t].page \notin
                  (pw_manager'.recycled \ pw_manager.recycled)]_vars

\* the user check_schedule_updates is processing
UpdatesUser == bot.updates.rows[bot.updates.k]

\* C31: when the scraped schedule differs (the date paragraph apart) from
\* the one read at the start of the run, update_user_schedule, unless the
\* store fails, has stored the new schedule before the message is tried; the
\* one try of the run, delivered or not, changes nothing stored and is
\* followed by the next user; and a schedule that does not differ from the
\* stored one causes neither a message nor a write.
C31_AdvanceBeforeSend ==
    [][LET l == bot.updates
           n == bot'.updates
       IN  /\ (l.pc = "scrape" /\ n.pc = "send") =>
                 /\ Clean(n.new) # Clean(UpdatesUser.last_schedule)
                 /\ (~n.failed /\ UpdatesUser.discord_id \in DOMAIN bot.users) =>
                       bot'.users[UpdatesUser.discord_id] = n.new
           /\ (l.pc = "send" /\ n # l) =>
                 /\ n.pc = "sleep" /\ l.tries = 0 /\ n.tries = 1
                 /\ bot'.users = bot.users
           /\ (l.pc = "scrape" /\ n.pc = "sleep") =>
                 /\ Clean(n.new) = Clean(UpdatesUser.last_schedule)
                 /\ n.tries = 0
                 /\ bot'.users = bot.users
           /\ (l.pc = "sleep" /\ n # l) =>
                 \/ n.pc = "idle"
                 \/ n.pc = "scrape" /\ n.k = l.k + 1 /\ n.tries = 0]_vars

\* a changed schedule was stored and its message could not be delivered
C31_Witness ==
    /\ bot.updates.pc = "sleep"
    /\ bot.updates.sent = "failed"
    /\ UpdatesUser.discord_id \in DOMAIN bot.users
    /\ bot.users[UpdatesUser.discord_id] = bot.updates.new
    /\ Clean(bot.updates.new) # Clean(UpdatesUser.last_schedule)

\* C37: a scrape that returned the error text of get_outage_schedule is
\* followed by no message and leaves every last_schedule as it was.
C37_FailedScrapeIgnored ==
    [][(bot.updates.pc = "scrape" /\ bot'.updates.pc \in {"send", "sleep"}
          /\ bot'.updates.new = ErrorText) =>
          (bot'.updates.pc # "send" /\ bot'.users = bot.users)]_vars

\* C39: a run of check_schedule_updates ends only when the scrape of every
\* user it read at its start has returned and been compared.
C39_RunChecksAll ==
    [][(bot.updates.pc # "idle" /\ bot'.updates.pc = "idle") =>
          bot.updates.checked =
              {bot.updates.rows[j].discord_id : j \in 1..Len(bot.updates.rows)}]_vars

\* the row check_upcoming_outages is warning about
OutagesRow == bot.outages.rows[bot.outages.k]

=============================================================================
